---- MODULE Spec2Model ----
(***************************************************************************)
(* Eventure in-memory message broker: the handler registry, the channel    *)
(* matcher and the dispatcher of sdk/src/in_memory/implementation.rs.      *)
(*                                                                         *)
(* A channel name (&'static str) is a sequence of one-character strings.   *)
(* Every public function takes HANDLER_REGISTRY.lock().unwrap() for the    *)
(* whole call.  Spec takes one call as one atomic step and records it in   *)
(* last and invoked.  SpecThreads runs the calls of several threads step   *)
(* by step: the lock, the statements under it, each handler invocation.    *)
(* SpecConfig adds setup and the BROKER_CONFIGURATION it writes to the     *)
(* calls of Spec.  SpecThreadsFair is SpecThreads with threads that keep   *)
(* running, SpecLocks runs setup step by step with the registry calls,     *)
(* and SpecKafka is the configuration of sdk/src/kafka/implementation.rs.  *)
(***************************************************************************)
EXTENDS Naturals, Sequences, FiniteSets

VARIABLES
    handler_configs,   \* EventHandlerRegistryImpl.handler_configs (Vec<HandlerConfiguration>)
    poisoned,          \* poison flag of the HANDLER_REGISTRY mutex
    invoked,           \* positions whose handler.handle(event) ran in the last call, in call order
    last,              \* the last public call: function, arguments, outcome
    lock,              \* the thread holding the HANDLER_REGISTRY mutex, or NoThread
    threads,           \* per thread: where it is in its call, the call, its locals
    expected,          \* the subscriptions registered and not unregistered, by completed calls
    broker_configuration,  \* the MessageBrokerConfigurationInternal in BROKER_CONFIGURATION
    broker_poisoned,       \* poison flag of the BROKER_CONFIGURATION mutex
    config_lock,           \* the thread holding the BROKER_CONFIGURATION mutex, or NoThread
    kafka_configuration,   \* kafka: the MessageBrokerConfigurationInternal in BROKER_CONFIGURATION
    kafka_poisoned,        \* kafka: poison flag of the BROKER_CONFIGURATION mutex
    kafka_setup,           \* kafka: the configuration of the last setup that returned
    kafka_pending,         \* kafka: channels of the register threads spawned, consumer not yet created
    kafka_consumers        \* kafka: the ClientConfig of every consumer created

seqVars == <<invoked, last>>
threadVars == <<lock, threads, expected>>
configVars == <<broker_configuration, broker_poisoned>>
kafkaVars == <<kafka_configuration, kafka_poisoned, kafka_setup, kafka_pending,
               kafka_consumers>>
vars == <<handler_configs, poisoned, invoked, last, lock, threads, expected,
          broker_configuration, broker_poisoned, config_lock, kafkaVars>>

(***************************************************************************)
(* Bounds of the model.                                                    *)
(***************************************************************************)
MaxSubs == 3
\* the cap on the Vec in SpecThreads
MaxThreadSubs == 3

(***************************************************************************)
(* Inputs.                                                                 *)
(***************************************************************************)
TOPIC == "TOPIC"
QUEUE == "QUEUE"
ChannelType == {TOPIC, QUEUE}

Orders == <<"O", "r", "d", "e", "r", "s">>       \* "Orders"
OrderAny == <<"O", "r", "d", "e", "r", ".", "*">>  \* "Order.*"
Account == <<"A", "c", "c", "o", "u", "n", "t">>  \* "Account"
Accounts == <<"A", "c", "c", "o", "u", "n", "t", "s">>  \* "Accounts"
Star == <<"*">>                                  \* "*"

\* names handed to register (message_channel(.., name))
PatternNames == {OrderAny, Account, Star}
\* names handed to emit_to_channel
ChannelNames == {Orders, Accounts, Star}

HandlerIds == {"h1", "h2"}
Events == {"OrderCreated", "OrderCanceled"}

Threads == {"t1", "t2"}
NoThread == "-"

(***************************************************************************)
(* regex::Regex for the syntax the names above use: a literal character,   *)
(* "." (any character but "\n"), a postfix "*" (zero or more of the        *)
(* preceding atom).  Regex::new fails on a "*" that has nothing to repeat. *)
(***************************************************************************)
RECURSIVE ParseFrom(_, _)
ParseFrom(name, i) ==
    IF i > Len(name) THEN <<>>
    ELSE IF name[i] = "*"
         THEN ParseFrom(name, i + 1)     \* a repeated repetition: x**, x*** are x*
         ELSE IF i < Len(name) /\ name[i + 1] = "*"
              THEN <<[atom |-> name[i], star |-> TRUE]>> \o ParseFrom(name, i + 2)
              ELSE <<[atom |-> name[i], star |-> FALSE]>> \o ParseFrom(name, i + 1)

\* a compiler taking a "*" with nothing to repeat for nothing at all
RegexNewLenient(name) == [ok |-> TRUE, regex |-> ParseFrom(name, 1)]

\* Regex::new(name): Ok(program) or Err (repetition operator missing expression)
RegexNew(name) ==
    IF Len(name) > 0 /\ name[1] = "*"
    THEN [ok |-> FALSE, regex |-> <<>>]
    ELSE [ok |-> TRUE, regex |-> ParseFrom(name, 1)]

\* "." is any character but the line feed (Regex::new sets no s flag)
AtomMatches(atom, c) == atom = c \/ (atom = "." /\ c # "\n")

\* the program from instruction i matches a prefix of text starting at position j
RECURSIVE MatchHere(_, _, _, _)
MatchHere(regex, i, text, j) ==
    IF i > Len(regex) THEN TRUE
    ELSE IF regex[i].star
         THEN \E k \in j..(Len(text) + 1) :
                 /\ \A m \in j..(k - 1) : AtomMatches(regex[i].atom, text[m])
                 /\ MatchHere(regex, i + 1, text, k)
         ELSE /\ j <= Len(text)
              /\ AtomMatches(regex[i].atom, text[j])
              /\ MatchHere(regex, i + 1, text, j + 1)

\* the program from instruction i matches text from position j to its end
RECURSIVE MatchToEnd(_, _, _, _)
MatchToEnd(regex, i, text, j) ==
    IF i > Len(regex) THEN j = Len(text) + 1
    ELSE IF regex[i].star
         THEN \E k \in j..(Len(text) + 1) :
                 /\ \A m \in j..(k - 1) : AtomMatches(regex[i].atom, text[m])
                 /\ MatchToEnd(regex, i + 1, text, k)
         ELSE /\ j <= Len(text)
              /\ AtomMatches(regex[i].atom, text[j])
              /\ MatchToEnd(regex, i + 1, text, j + 1)

\* a match anchored at both ends of the text
CapturesAnchored(regex, text) == MatchToEnd(regex, 1, text, 1)

\* regex.captures(text).is_some(): an unanchored search
CapturesIsSome(regex, text) ==
    \E j \in 1..(Len(text) + 1) : MatchHere(regex, 1, text, j)

(***************************************************************************)
(* MessageChannel / MessageChannelInternal                                 *)
(***************************************************************************)
message_channel(channel_type, channel_name) ==
    [channel_type |-> channel_type, name |-> channel_name]

MessageChannels == {message_channel(t, n) : t \in ChannelType, n \in ChannelNames}

\* MessageChannelInternal::from, for a name that compiles
MessageChannelInternalFrom(mc) ==
    [channel_type |-> mc.channel_type,
     name_regex |-> [some |-> TRUE, regex |-> RegexNew(mc.name).regex]]

\* matches without the test of the match-all channel name
MatchesDroppedStar(internal, channel) ==
    IF internal.name_regex.some
    THEN /\ internal.channel_type = channel.channel_type
         /\ CapturesIsSome(internal.name_regex.regex, channel.name)
    ELSE FALSE

\* matches with the match-all channel name tested outside the kind comparison
MatchesStarAnyKind(internal, channel) ==
    IF internal.name_regex.some
    THEN \/ /\ internal.channel_type = channel.channel_type
            /\ CapturesIsSome(internal.name_regex.regex, channel.name)
         \/ channel.name = Star
    ELSE FALSE

\* MessageChannelInternal::matches
Matches(internal, channel) ==
    IF internal.name_regex.some
    THEN /\ internal.channel_type = channel.channel_type
         /\ (CapturesIsSome(internal.name_regex.regex, channel.name) \/ channel.name = Star)
    ELSE FALSE

(***************************************************************************)
(* EventHandlerRegistryImpl                                                *)
(***************************************************************************)
\* handler_configs.iter().position(|config| config.handler.id() == id)
RECURSIVE PositionFrom(_, _, _)
PositionFrom(configs, id, i) ==
    IF i > Len(configs) THEN 0
    ELSE IF configs[i].handler.id = id THEN i
         ELSE PositionFrom(configs, id, i + 1)

\* rposition: the last subscription with the id
RECURSIVE PositionLastFrom(_, _, _)
PositionLastFrom(configs, id, i) ==
    IF i < 1 THEN 0
    ELSE IF configs[i].handler.id = id THEN i
         ELSE PositionLastFrom(configs, id, i - 1)

PositionLast(configs, id) == PositionLastFrom(configs, id, Len(configs))

Position(configs, id) == PositionFrom(configs, id, 1)

\* remove taking the element after the index
VecRemoveNext(configs, index) ==
    [k \in 1..(Len(configs) - 1) |-> IF k < index + 1 THEN configs[k] ELSE configs[k + 1]]

\* Vec::swap_remove: the last element takes the place of the removed one
VecSwapRemove(configs, index) ==
    [k \in 1..(Len(configs) - 1) |->
        IF k = index THEN configs[Len(configs)] ELSE configs[k]]

\* Vec::remove(index)
VecRemove(configs, index) ==
    [k \in 1..(Len(configs) - 1) |-> IF k < index THEN configs[k] ELSE configs[k + 1]]

\* an unregister that drops every subscription with the id (Vec::retain)
UnregisterImplRetain(configs, id) ==
    SelectSeq(configs, LAMBDA config : config.handler.id # id)

\* EventHandlerRegistryImpl::unregister
UnregisterImpl(configs, id) ==
    IF Position(configs, id) = 0 THEN configs
    ELSE VecRemove(configs, Position(configs, id))

\* let removed = ... .is_some()
Removed(configs, id) == Position(configs, id) # 0

\* register putting the subscription in front (Vec::insert(0, ..))
RegisterImplInFront(configs, channel, handler) ==
    <<[handler |-> handler, channel |-> channel]>> \o configs

\* EventHandlerRegistryImpl::register
RegisterImpl(configs, channel, handler) ==
    Append(configs, [handler |-> handler, channel |-> channel])

\* the scan leaving the loop after the first match whatever the channel kind
RECURSIVE EmitToChannelBreakAlways(_, _, _)
EmitToChannelBreakAlways(configs, channel, i) ==
    IF i > Len(configs) THEN <<>>
    ELSE IF Matches(configs[i].channel, channel)
         THEN <<i>>
         ELSE EmitToChannelBreakAlways(configs, channel, i + 1)

\* the scan without the break of the QUEUE kind
RECURSIVE EmitToChannelNoBreak(_, _, _)
EmitToChannelNoBreak(configs, channel, i) ==
    IF i > Len(configs) THEN <<>>
    ELSE IF Matches(configs[i].channel, channel)
         THEN <<i>> \o EmitToChannelNoBreak(configs, channel, i + 1)
         ELSE EmitToChannelNoBreak(configs, channel, i + 1)

\* the scan leaving the loop at the first subscription that does not match
RECURSIVE EmitToChannelBreakOnMiss(_, _, _)
EmitToChannelBreakOnMiss(configs, channel, i) ==
    IF i > Len(configs) THEN <<>>
    ELSE IF Matches(configs[i].channel, channel)
         THEN IF channel.channel_type = QUEUE
              THEN <<i>>
              ELSE <<i>> \o EmitToChannelBreakOnMiss(configs, channel, i + 1)
         ELSE <<>>

\* EventHandlerRegistryImpl::emit, Some(channel) arm: the positions handled, in order
RECURSIVE EmitToChannelFrom(_, _, _)
EmitToChannelFrom(configs, channel, i) ==
    IF i > Len(configs) THEN <<>>
    ELSE IF Matches(configs[i].channel, channel)
         THEN IF channel.channel_type = QUEUE
              THEN <<i>>
              ELSE <<i>> \o EmitToChannelFrom(configs, channel, i + 1)
         ELSE EmitToChannelFrom(configs, channel, i + 1)

\* the None arm filtering by the default channel kind of MessageChannelInternal::new
EmitNoneDefaultKind(configs) ==
    SelectSeq([i \in 1..Len(configs) |-> i],
              LAMBDA i : configs[i].channel.channel_type = TOPIC)

\* an emit without channel falling back on the configured default channel's kind
EmitNoneConfigured(configs) ==
    SelectSeq([i \in 1..Len(configs) |-> i],
              LAMBDA i : configs[i].channel.channel_type
                            = broker_configuration.message_channel.channel_type)

\* EventHandlerRegistryImpl::emit, None arm
EmitNone(configs) == [i \in 1..Len(configs) |-> i]

\* an emit compiling the name of the emitted channel when it has to match it
EmitResultCompiling(configs, channel_option) ==
    IF channel_option.some /\ configs # <<>> /\ ~RegexNew(channel_option.channel.name).ok
    THEN "panic" ELSE "ok"

\* EventHandlerRegistryImpl::emit: how the call ends with handlers that return.
\* Nothing in it is fallible: matches runs the Regex stored at registration.
EmitResult(configs, channel_option) == "ok"

\* a QUEUE shared out among its consumers: the matching subscription after the one
\* served last gets the event, the first one again after the last
EmitImplRoundRobin(configs, channel_option) ==
    IF ~channel_option.some THEN EmitNone(configs)
    ELSE IF channel_option.channel.channel_type # QUEUE
    THEN EmitToChannelFrom(configs, channel_option.channel, 1)
    ELSE IF invoked # <<>>
            /\ EmitToChannelFrom(configs, channel_option.channel, invoked[1] + 1) # <<>>
    THEN EmitToChannelFrom(configs, channel_option.channel, invoked[1] + 1)
    ELSE EmitToChannelFrom(configs, channel_option.channel, 1)

\* EventHandlerRegistryImpl::emit
EmitImpl(configs, channel_option) ==
    IF channel_option.some
    THEN EmitToChannelFrom(configs, channel_option.channel, 1)
    ELSE EmitNone(configs)

None == [some |-> FALSE, channel |-> message_channel(TOPIC, <<>>)]
Some(channel) == [some |-> TRUE, channel |-> channel]

NoHandler == "-"
NoEvent == "-"

\* one public call: result is "ok" when it returned and "panic" when it unwound;
\* removed is the local of that name in EventHandlerRegistryImpl::unregister
Call(op, id, channel_option, event, removed, result) ==
    [op |-> op, id |-> id, channel_option |-> channel_option, event |-> event,
     removed |-> removed, result |-> result]

(***************************************************************************)
(* Public functions                                                        *)
(***************************************************************************)
\* a thread that is in no call of the registry
\* a lock().unwrap() replaced by one that takes the data out of a poisoned mutex
UnwrapRecovers(is_poisoned) == FALSE

\* Mutex::lock gives Err(PoisonError) on a poisoned mutex, and unwrap panics on it
UnwrapPanics(is_poisoned) == is_poisoned

\* a register that builds its arguments before it locks
GuardTakenAfterArguments == FALSE

\* HANDLER_REGISTRY.lock().unwrap().register(MessageChannelInternal::from(..), ..):
\* the receiver is evaluated before the arguments, so from() runs under the guard
GuardAliveInArguments == TRUE

\* pub fn configuration(channel_type, channel_name, is_async)
configuration(channel_type, channel_name, is_async) ==
    [message_channel |-> message_channel(channel_type, channel_name), is_async |-> is_async]

\* MessageChannelInternal::new
MessageChannelInternalNew ==
    [channel_type |-> TOPIC, name_regex |-> [some |-> FALSE, regex |-> <<>>]]

\* MessageBrokerConfigurationInternal::new
MessageBrokerConfigurationInternalNew ==
    [message_channel |-> MessageChannelInternalNew, is_async |-> FALSE]

\* MessageBrokerConfigurationInternal::from
MessageBrokerConfigurationInternalFrom(c) ==
    [message_channel |-> MessageChannelInternalFrom(c.message_channel),
     is_async |-> c.is_async]

\* an update that stores the channel and forgets the mode
UpdateChannelOnly(self, c) == [self EXCEPT !.message_channel = c.message_channel]

\* MessageBrokerConfigurationInternal::update
Update(self, c) ==
    [self EXCEPT !.message_channel = c.message_channel, !.is_async = c.is_async]

\* the record of a setup call: the configuration passed and how the call ended
SetupCall(c, result) ==
    [op |-> "setup", id |-> NoHandler, channel_option |-> Some(c.message_channel),
     event |-> NoEvent, removed |-> FALSE, result |-> result, is_async |-> c.is_async]

NoCall == [op |-> "-", id |-> NoHandler, channel_option |-> None, event |-> NoEvent]
IdleThread ==
    [pc |-> "idle", call |-> NoCall, cursor |-> 0, delivered |-> <<>>,
     snapshot |-> <<>>, fault |-> "none"]

(***************************************************************************)
(* sdk/src/kafka/implementation.rs: the configuration of the Kafka broker. *)
(***************************************************************************)
\* kafka::message_channel
KafkaMessageChannel(topic, partition, group_id) ==
    [topic |-> topic, partition |-> partition, group_id |-> group_id]

\* kafka::MessageBrokerConfiguration
KafkaMessageBrokerConfiguration(channel, servers, auto_create, auto_commit, timeout) ==
    [message_channel |-> channel, bootstrap_servers |-> servers,
     topic_auto_create_enabled |-> auto_create, auto_commit_enabled |-> auto_commit,
     timeout |-> timeout]

\* kafka::configuration
KafkaConfiguration(topic, partition) ==
    KafkaMessageBrokerConfiguration(KafkaMessageChannel(topic, partition, "default"),
                                    "localhost:9092", FALSE, TRUE, 10000)

\* kafka MessageChannelInternal::new
KafkaMessageChannelInternalNew ==
    [topic |-> "default", partition |-> 0, group_id |-> "default"]

\* kafka MessageChannelInternal::from
KafkaMessageChannelInternalFrom(channel) ==
    [topic |-> channel.topic, partition |-> channel.partition,
     group_id |-> channel.group_id]

\* kafka MessageBrokerConfigurationInternal::new
KafkaMessageBrokerConfigurationInternalNew ==
    [message_channel |-> KafkaMessageChannelInternalNew,
     bootstrap_servers |-> "localhost:9092",
     topic_auto_create_enabled |-> FALSE,
     auto_commit_enabled |-> TRUE,
     timeout |-> 0]

\* kafka MessageBrokerConfigurationInternal::from
KafkaMessageBrokerConfigurationInternalFrom(c) ==
    [message_channel |-> KafkaMessageChannelInternalFrom(c.message_channel),
     bootstrap_servers |-> c.bootstrap_servers,
     topic_auto_create_enabled |-> c.topic_auto_create_enabled,
     auto_commit_enabled |-> c.auto_commit_enabled,
     timeout |-> c.timeout]

\* kafka MessageBrokerConfigurationInternal::update: four assignments, none to
\* auto_commit_enabled
KafkaUpdate(self, c) ==
    [self EXCEPT !.message_channel = c.message_channel,
                 !.bootstrap_servers = c.bootstrap_servers,
                 !.topic_auto_create_enabled = c.topic_auto_create_enabled,
                 !.timeout = c.timeout]

\* the ClientConfig of the StreamConsumer built by kafka::register; after is the
\* configuration of the last setup that returned before it was built
ConsumerClientConfig(stored, channel, after) ==
    [bootstrap_servers |-> stored.bootstrap_servers,
     session_timeout_ms |-> stored.timeout,
     enable_auto_commit |-> stored.auto_commit_enabled,
     group_id |-> channel.group_id,
     auto_offset_reset |-> "earliest",
     topic |-> channel.topic,
     after |-> after]

NoSetup == [some |-> FALSE, configuration |-> KafkaConfiguration("default", 0)]
SomeSetup(c) == [some |-> TRUE, configuration |-> c]

Init ==
    /\ handler_configs = <<>>
    /\ poisoned = FALSE
    /\ invoked = <<>>
    /\ last = Call("new", NoHandler, None, NoEvent, FALSE, "ok")
    /\ lock = NoThread
    /\ threads = [t \in Threads |-> IdleThread]
    /\ expected = <<>>
    /\ broker_configuration = MessageBrokerConfigurationInternalNew
    /\ broker_poisoned = FALSE
    /\ config_lock = NoThread
    /\ kafka_configuration = KafkaMessageBrokerConfigurationInternalNew
    /\ kafka_poisoned = FALSE
    /\ kafka_setup = NoSetup
    /\ kafka_pending = <<>>
    /\ kafka_consumers = <<>>

\* pub fn register(message_channel, event_handler)
Register(mc, id) ==
    /\ invoked' = <<>>
    /\ UNCHANGED <<threadVars, configVars, config_lock, kafkaVars>>
    /\ IF UnwrapPanics(poisoned)
       THEN \* lock().unwrap() panics on the poisoned mutex
            /\ last' = Call("register", id, Some(mc), NoEvent, FALSE, "panic")
            /\ UNCHANGED <<handler_configs, poisoned>>
       ELSE IF ~RegexNew(mc.name).ok
       THEN \* Regex::new(..).unwrap() panics while the guard is alive
            /\ last' = Call("register", id, Some(mc), NoEvent, FALSE, "panic")
            /\ poisoned' = GuardAliveInArguments
            /\ UNCHANGED handler_configs
       ELSE /\ Len(handler_configs) < MaxSubs     \* the model's cap on the Vec
            /\ handler_configs' =
                  RegisterImpl(handler_configs, MessageChannelInternalFrom(mc), [id |-> id])
            /\ last' = Call("register", id, Some(mc), NoEvent, FALSE, "ok")
            /\ UNCHANGED poisoned

\* pub fn unregister(event_handler)
Unregister(id) ==
    /\ invoked' = <<>>
    /\ UNCHANGED <<threadVars, configVars, config_lock, kafkaVars>>
    /\ IF UnwrapPanics(poisoned)
       THEN /\ last' = Call("unregister", id, None, NoEvent, FALSE, "panic")
            /\ UNCHANGED <<handler_configs, poisoned>>
       ELSE /\ handler_configs' = UnregisterImpl(handler_configs, id)
            /\ last' = Call("unregister", id, None, NoEvent, Removed(handler_configs, id), "ok")
            /\ UNCHANGED poisoned

\* the registered handlers are OrderCreatedEventHandlers (order_created::handler(),
\* one id each): event.as_any().downcast_ref::<OrderCreated>() is Some for an
\* OrderCreated and None for any other event
Narrows(handler, event) == event = "OrderCreated"

\* a handler that unwraps the downcast
HandlePanicsOnMismatch(handler, event) ==
    IF Narrows(handler, event) THEN "handling" ELSE "panic"

\* EventHandler::handle of the examples' handlers: match event.as_any().downcast_ref()
\* { Some(e) => self.handle(e), None => info!("not handling (type mismatch) ..") }
Handle(handler, event) ==
    IF Narrows(handler, event) THEN "handling" ELSE "not handling"

RECURSIVE FirstPanic(_, _, _, _)
\* the first of the selected positions, from the k-th on, whose handler panics; 0 if none
FirstPanic(configs, selected, event, k) ==
    IF k > Len(selected) THEN 0
    ELSE IF Handle(configs[selected[k]].handler, event) = "panic" THEN k
    ELSE FirstPanic(configs, selected, event, k + 1)

\* a dispatcher that looks at the event and calls only the handlers narrowing it
DeliveredToNarrowing(configs, selected, event) ==
    SelectSeq(selected, LAMBDA i : Narrows(configs[i].handler, event))

\* a dispatcher that hands the calls to a worker when the mode is async, and returns
DeliveredUnlessAsync(configs, selected, event) ==
    IF broker_configuration.is_async THEN <<>> ELSE selected

\* config.handler.handle(event) for the selected positions in turn: the positions
\* whose handler was called when emit returns, or unwinds at the first panic
Delivered(configs, selected, event) ==
    IF FirstPanic(configs, selected, event, 1) = 0 THEN selected
    ELSE [k \in 1..FirstPanic(configs, selected, event, 1) |-> selected[k]]

\* an emit that takes the subscription it delivered to on a QUEUE out of the registry
AfterEmitConsuming(configs, channel_option) ==
    IF channel_option.some /\ channel_option.channel.channel_type = QUEUE
       /\ EmitImpl(configs, channel_option) # <<>>
    THEN VecRemove(configs, EmitImpl(configs, channel_option)[1])
    ELSE configs

\* fn emit(&self, ..): the registry is borrowed shared, the loops only read it
AfterEmit(configs, channel_option) == configs

\* pub fn emit(event)
Emit(event) ==
    /\ IF UnwrapPanics(poisoned)
       THEN /\ last' = Call("emit", NoHandler, None, event, FALSE, "panic")
            /\ invoked' = <<>>
            /\ UNCHANGED <<handler_configs, poisoned>>
       ELSE LET selected == EmitImpl(handler_configs, None)
                panicked == FirstPanic(handler_configs, selected, event, 1) # 0
            IN  /\ invoked' = Delivered(handler_configs, selected, event)
                /\ poisoned' = panicked
                /\ last' = Call("emit", NoHandler, None, event, FALSE,
                                IF panicked THEN "panic"
                                ELSE EmitResult(handler_configs, None))
                /\ handler_configs' = AfterEmit(handler_configs, None)
    /\ UNCHANGED <<threadVars, configVars, config_lock, kafkaVars>>

\* pub fn emit_to_channel(event, channel)
EmitToChannel(event, channel) ==
    /\ IF UnwrapPanics(poisoned)
       THEN /\ last' = Call("emit_to_channel", NoHandler, Some(channel), event, FALSE, "panic")
            /\ invoked' = <<>>
            /\ UNCHANGED <<handler_configs, poisoned>>
       ELSE LET selected == EmitImpl(handler_configs, Some(channel))
                panicked == FirstPanic(handler_configs, selected, event, 1) # 0
            IN  /\ invoked' = Delivered(handler_configs, selected, event)
                /\ poisoned' = panicked
                /\ last' = Call("emit_to_channel", NoHandler, Some(channel), event, FALSE,
                                IF panicked THEN "panic"
                                ELSE EmitResult(handler_configs, Some(channel)))
                /\ handler_configs' = AfterEmit(handler_configs, Some(channel))
    /\ UNCHANGED <<threadVars, configVars, config_lock, kafkaVars>>

Next ==
    \/ \E t \in ChannelType, n \in PatternNames, id \in HandlerIds :
          Register(message_channel(t, n), id)
    \/ \E id \in HandlerIds : Unregister(id)
    \/ \E e \in Events : Emit(e)
    \/ \E e \in Events, c \in MessageChannels : EmitToChannel(e, c)

Spec == Init /\ [][Next]_vars

(***************************************************************************)
(* The same four functions called from several threads, each call taken    *)
(* apart into the steps between which another thread can run: the          *)
(* statement HANDLER_REGISTRY.lock().unwrap().f(args) locks, evaluates the *)
(* arguments, runs f, and drops the guard at its end.  lock is the thread  *)
(* holding the Mutex; a thread's cursor is the index its loop, position or *)
(* push is at.  snapshot and delivered (the registry as the emit found it  *)
(* when it locked, the positions whose handler it called) and expected     *)
(* (the registry rebuilt from the calls that pushed and removed) are       *)
(* history, read by no step.                                               *)
(***************************************************************************)
ThreadPatterns ==
    {message_channel(TOPIC, OrderAny), message_channel(QUEUE, OrderAny),
     message_channel(TOPIC, Star)}
ThreadChannels == {message_channel(TOPIC, Orders), message_channel(QUEUE, Orders)}
ThreadEvent == "OrderCreated"

ThreadCalls ==
    {[op |-> "register", id |-> id, channel_option |-> Some(mc), event |-> NoEvent] :
        id \in HandlerIds, mc \in ThreadPatterns}
    \cup {[op |-> "unregister", id |-> id, channel_option |-> None, event |-> NoEvent] :
        id \in HandlerIds}
    \cup {[op |-> "emit", id |-> NoHandler, channel_option |-> None, event |-> ThreadEvent]}
    \cup {[op |-> "emit_to_channel", id |-> NoHandler, channel_option |-> Some(mc),
           event |-> ThreadEvent] : mc \in ThreadChannels}

\* the register calls made and not yet through their push
Registering == {t \in Threads : threads[t].call.op = "register"
                                /\ threads[t].pc \in {"lock", "from", "push"}}

\* the first n elements of s, all of s when it has fewer
Prefix(s, n) == [k \in 1..(IF n < Len(s) THEN n ELSE Len(s)) |-> s[k]]

\* a lock that lets a thread in while another holds it
CanAcquireAlways(holder) == TRUE

\* Mutex::lock returns once no thread holds the mutex
CanAcquire(holder) == holder = NoThread

\* the thread is where the guard is alive
Critical == {"from", "push", "position", "remove", "scan", "handling", "reentering",
             "handler_config_lock", "handler_update"}

\* a thread calls one of the four functions
TCall(t, c) ==
    /\ threads[t].pc = "idle"
    /\ c.op = "register" =>
          Len(handler_configs) + Cardinality(Registering) < MaxThreadSubs
    /\ threads' = [threads EXCEPT ![t] = [IdleThread EXCEPT !.pc = "lock", !.call = c]]
    /\ UNCHANGED <<handler_configs, poisoned, seqVars, configVars, config_lock, kafkaVars, lock, expected>>

\* HANDLER_REGISTRY.lock().unwrap()
TLock(t) ==
    /\ threads[t].pc = "lock"
    /\ CanAcquire(lock)
    /\ IF UnwrapPanics(poisoned)
       THEN \* Err(PoisonError): unwrap panics and the guard in the error is dropped
            /\ threads' = [threads EXCEPT ![t].pc = "unwound", ![t].fault = "poisoned"]
            /\ UNCHANGED lock
       ELSE /\ lock' = t
            /\ threads' = [threads EXCEPT
                  ![t].pc = CASE threads[t].call.op = "register" -> "from"
                              [] threads[t].call.op = "unregister" -> "position"
                              [] OTHER -> "scan",
                  ![t].cursor = 1,
                  ![t].snapshot = handler_configs]
    /\ UNCHANGED <<handler_configs, poisoned, seqVars, configVars, config_lock, kafkaVars, expected>>

\* MessageChannelInternal::from(message_channel), the first argument of register,
\* then the entry of Vec::push, which reads the length
TFrom(t) ==
    /\ threads[t].pc = "from"
    /\ IF ~RegexNew(threads[t].call.channel_option.channel.name).ok
       THEN \* Regex::new(..).unwrap() panics; the guard is dropped while panicking
            /\ threads' = [threads EXCEPT ![t].pc = "unwound", ![t].fault = "pattern"]
            /\ poisoned' = TRUE
            /\ lock' = IF lock = t THEN NoThread ELSE lock
       ELSE /\ threads' = [threads EXCEPT ![t].pc = "push",
                                          ![t].cursor = Len(handler_configs)]
            /\ UNCHANGED <<poisoned, lock>>
    /\ UNCHANGED <<handler_configs, seqVars, configVars, config_lock, kafkaVars, expected>>

\* Vec::push writes the element after the length it read; the statement ends
TPush(t) ==
    /\ threads[t].pc = "push"
    /\ handler_configs' =
          RegisterImpl(Prefix(handler_configs, threads[t].cursor),
                       MessageChannelInternalFrom(threads[t].call.channel_option.channel),
                       [id |-> threads[t].call.id])
    /\ expected' =
          Append(expected,
                 [handler |-> [id |-> threads[t].call.id],
                  channel |-> MessageChannelInternalFrom(threads[t].call.channel_option.channel)])
    /\ lock' = IF lock = t THEN NoThread ELSE lock
    /\ threads' = [threads EXCEPT ![t] = IdleThread]
    /\ UNCHANGED <<poisoned, seqVars, configVars, config_lock, kafkaVars>>

\* handler_configs.iter().position(|config| *config.handler.id() == event_handler.id())
TPosition(t) ==
    /\ threads[t].pc = "position"
    /\ threads' = [threads EXCEPT ![t].pc = "remove",
                                  ![t].cursor = Position(handler_configs, threads[t].call.id)]
    /\ UNCHANGED <<handler_configs, poisoned, seqVars, configVars, config_lock, kafkaVars, lock, expected>>

\* .map(|config| self.handler_configs.remove(config)); the statement ends
TRemove(t) ==
    /\ threads[t].pc = "remove"
    /\ IF threads[t].cursor = 0
       THEN \* position found nothing: None.map(..) removes nothing
            /\ threads' = [threads EXCEPT ![t] = IdleThread]
            /\ lock' = IF lock = t THEN NoThread ELSE lock
            /\ UNCHANGED <<handler_configs, poisoned, expected>>
       ELSE IF threads[t].cursor \in DOMAIN handler_configs
       THEN /\ handler_configs' = VecRemove(handler_configs, threads[t].cursor)
            /\ expected' = IF Position(expected, threads[t].call.id) = 0 THEN expected
                           ELSE [k \in 1..(Len(expected) - 1) |->
                                    IF k < Position(expected, threads[t].call.id)
                                    THEN expected[k] ELSE expected[k + 1]]
            /\ threads' = [threads EXCEPT ![t] = IdleThread]
            /\ lock' = IF lock = t THEN NoThread ELSE lock
            /\ UNCHANGED poisoned
       ELSE \* Vec::remove panics on an index past the end
            /\ threads' = [threads EXCEPT ![t].pc = "unwound", ![t].fault = "index"]
            /\ poisoned' = TRUE
            /\ lock' = IF lock = t THEN NoThread ELSE lock
            /\ UNCHANGED <<handler_configs, expected>>
    /\ UNCHANGED <<seqVars, configVars, config_lock, kafkaVars>>

\* an iterator that yields the element it has just yielded again
IterNextStays(cursor) == cursor

\* slice::Iter::next in the for loops of EventHandlerRegistryImpl::emit: the
\* iterator moves to the following element
IterNext(cursor) == cursor + 1

\* one turn of the for loop of EventHandlerRegistryImpl::emit, up to the call of handle
TScan(t) ==
    /\ threads[t].pc = "scan"
    /\ IF threads[t].cursor > Len(handler_configs)
       THEN \* the iterator is exhausted: emit returns and the statement ends
            /\ threads' = [threads EXCEPT ![t] = IdleThread]
            /\ lock' = IF lock = t THEN NoThread ELSE lock
       ELSE /\ IF \/ ~threads[t].call.channel_option.some
                  \/ Matches(handler_configs[threads[t].cursor].channel,
                             threads[t].call.channel_option.channel)
               THEN threads' = [threads EXCEPT
                       ![t].pc = "handling",
                       ![t].delivered = Append(threads[t].delivered, threads[t].cursor)]
               ELSE threads' = [threads EXCEPT ![t].cursor = IterNext(threads[t].cursor)]
            /\ UNCHANGED lock
    /\ UNCHANGED <<handler_configs, poisoned, seqVars, configVars, config_lock, kafkaVars, expected>>

\* config.handler.handle(event) returns
THandlerReturns(t) ==
    /\ threads[t].pc = "handling"
    /\ IF /\ threads[t].call.channel_option.some
          /\ threads[t].call.channel_option.channel.channel_type = QUEUE
       THEN \* break: emit returns and the statement ends
            /\ threads' = [threads EXCEPT ![t] = IdleThread]
            /\ lock' = IF lock = t THEN NoThread ELSE lock
       ELSE /\ threads' = [threads EXCEPT ![t].pc = "scan",
                                          ![t].cursor = IterNext(threads[t].cursor)]
            /\ UNCHANGED lock
    /\ UNCHANGED <<handler_configs, poisoned, seqVars, configVars, config_lock, kafkaVars, expected>>

\* config.handler.handle(event) panics: nothing in emit catches it, the loop is
\* left and the guard is dropped while panicking
THandlerPanics(t) ==
    /\ threads[t].pc = "handling"
    /\ threads' = [threads EXCEPT ![t].pc = "unwound", ![t].fault = "handler"]
    /\ poisoned' = TRUE
    /\ lock' = IF lock = t THEN NoThread ELSE lock
    /\ UNCHANGED <<handler_configs, seqVars, configVars, config_lock, kafkaVars, expected>>

\* config.handler.handle(event) calls register, unregister, emit or
\* emit_to_channel: HANDLER_REGISTRY.lock() on the thread's own mutex
THandlerReenters(t) ==
    /\ threads[t].pc = "handling"
    /\ threads' = [threads EXCEPT ![t].pc = "reentering"]
    /\ UNCHANGED <<handler_configs, poisoned, seqVars, configVars, config_lock, kafkaVars, lock, expected>>

\* locking a Mutex the thread holds never returns: it blocks for ever (the
\* thread stays here) or it panics, which is this step
TRelockPanics(t) ==
    /\ threads[t].pc = "reentering"
    /\ threads' = [threads EXCEPT ![t].pc = "unwound", ![t].fault = "relock"]
    /\ poisoned' = TRUE
    /\ lock' = IF lock = t THEN NoThread ELSE lock
    /\ UNCHANGED <<handler_configs, seqVars, configVars, config_lock, kafkaVars, expected>>

TNext ==
    \/ \E t \in Threads, c \in ThreadCalls : TCall(t, c)
    \/ \E t \in Threads : TLock(t)
    \/ \E t \in Threads : TFrom(t)
    \/ \E t \in Threads : TPush(t)
    \/ \E t \in Threads : TPosition(t)
    \/ \E t \in Threads : TRemove(t)
    \/ \E t \in Threads : TScan(t)
    \/ \E t \in Threads : THandlerReturns(t)
    \/ \E t \in Threads : THandlerPanics(t)
    \/ \E t \in Threads : THandlerReenters(t)
    \/ \E t \in Threads : TRelockPanics(t)

SpecThreads == Init /\ [][TNext]_vars

\* a thread inside the loop of emit keeps running, and a handler that was called
\* does not stay in handle for ever: it returns, unless it panics or re-enters
EmitFairness ==
    \A t \in Threads : WF_vars(TScan(t)) /\ WF_vars(THandlerReturns(t))

SpecThreadsFair == SpecThreads /\ EmitFairness

(***************************************************************************)
(* setup and the registry calls together.  setup takes the other mutex,    *)
(* BROKER_CONFIGURATION, for its one statement; no registry function       *)
(* reads it.                                                               *)
(***************************************************************************)
DotStar == <<".", "*">>     \* ".*"

SetupConfigurations ==
    {configuration(TOPIC, DotStar, FALSE), configuration(TOPIC, DotStar, TRUE),
     configuration(QUEUE, OrderAny, TRUE), configuration(QUEUE, Star, FALSE)}
ConfigPatterns == {message_channel(TOPIC, OrderAny), message_channel(QUEUE, OrderAny)}
ConfigChannels == {message_channel(TOPIC, Orders), message_channel(QUEUE, Orders)}

\* pub fn setup(configuration)
Setup(c) ==
    /\ invoked' = <<>>
    /\ IF UnwrapPanics(broker_poisoned)
       THEN \* lock().unwrap() panics on the poisoned mutex
            /\ last' = SetupCall(c, "panic")
            /\ UNCHANGED configVars
       ELSE IF ~RegexNew(c.message_channel.name).ok
       THEN \* Regex::new(..).unwrap() panics while the guard is alive
            /\ last' = SetupCall(c, "panic")
            /\ broker_poisoned' = TRUE
            /\ UNCHANGED broker_configuration
       ELSE /\ broker_configuration' =
                  Update(broker_configuration, MessageBrokerConfigurationInternalFrom(c))
            /\ last' = SetupCall(c, "ok")
            /\ UNCHANGED broker_poisoned
    /\ UNCHANGED <<handler_configs, poisoned, threadVars, config_lock, kafkaVars>>

CNext ==
    \/ \E c \in SetupConfigurations : Setup(c)
    \/ \E mc \in ConfigPatterns, id \in HandlerIds : Register(mc, id)
    \/ \E id \in HandlerIds : Unregister(id)
    \/ \E event \in Events : Emit(event)
    \/ \E event \in Events, channel \in ConfigChannels : EmitToChannel(event, channel)

SpecConfig == Init /\ [][CNext]_vars

(***************************************************************************)
(* The Kafka broker: setup, and register, which spawns a thread that       *)
(* builds a consumer from the stored configuration.                        *)
(***************************************************************************)
\* the cap on the register calls of SpecKafka
MaxConsumers == 2

WithoutIndex(seq, i) ==
    [k \in 1..(Len(seq) - 1) |-> IF k < i THEN seq[k] ELSE seq[k + 1]]

KafkaConfigurations ==
    {KafkaConfiguration("Orders", 0),
     KafkaConfiguration("Accounts", 1),
     KafkaMessageBrokerConfiguration(KafkaMessageChannel("Orders", 0, "consumer_group"),
                                     "localhost:9092", FALSE, FALSE, 10000),
     KafkaMessageBrokerConfiguration(KafkaMessageChannel("Accounts", 1, "consumer_group"),
                                     "kafka:9093", TRUE, FALSE, 6000),
     KafkaMessageBrokerConfiguration(KafkaMessageChannel("Orders", 1, "default"),
                                     "kafka:9093", TRUE, TRUE, 6000)}

KafkaChannels ==
    {KafkaMessageChannel("Orders", 0, "consumer_group"),
     KafkaMessageChannel("Accounts", 1, "default")}

otherVars == <<handler_configs, poisoned, seqVars, threadVars, configVars, config_lock>>

\* kafka::setup
KafkaSetup(c) ==
    /\ IF UnwrapPanics(kafka_poisoned)
       THEN \* lock().unwrap() panics on the poisoned mutex: nothing is stored
            UNCHANGED <<kafka_configuration, kafka_setup>>
       ELSE /\ kafka_configuration' =
                  KafkaUpdate(kafka_configuration,
                              KafkaMessageBrokerConfigurationInternalFrom(c))
            /\ kafka_setup' = SomeSetup(c)
    /\ UNCHANGED <<kafka_poisoned, kafka_pending, kafka_consumers, otherVars>>

\* kafka::register: thread::spawn, and the call returns
KafkaRegister(channel) ==
    /\ Len(kafka_pending) + Len(kafka_consumers) < MaxConsumers
    /\ kafka_pending' = Append(kafka_pending, channel)
    /\ UNCHANGED <<kafka_configuration, kafka_poisoned, kafka_setup, kafka_consumers,
                   otherVars>>

\* the spawned thread: BROKER_CONFIGURATION.lock().unwrap(), then the consumer is
\* built from the stored configuration and the guard is dropped
KafkaConsumerCreated(i) ==
    /\ i \in DOMAIN kafka_pending
    /\ ~UnwrapPanics(kafka_poisoned)
    /\ kafka_consumers' =
          Append(kafka_consumers,
                 ConsumerClientConfig(kafka_configuration, kafka_pending[i], kafka_setup))
    /\ kafka_pending' = WithoutIndex(kafka_pending, i)
    /\ UNCHANGED <<kafka_configuration, kafka_poisoned, kafka_setup, otherVars>>

\* the spawned thread panics: in lock().unwrap() on a poisoned mutex, or in
\* create().expect(..) when the client rejects a setting, which the model leaves
\* open for the session.timeout.ms of 0 stored before any setup; the guard is then
\* alive and the mutex is poisoned
KafkaConsumerPanics(i) ==
    /\ i \in DOMAIN kafka_pending
    /\ \/ UnwrapPanics(kafka_poisoned)
       \/ kafka_configuration.timeout = 0
    /\ kafka_poisoned' = (kafka_poisoned \/ kafka_configuration.timeout = 0)
    /\ kafka_pending' = WithoutIndex(kafka_pending, i)
    /\ UNCHANGED <<kafka_configuration, kafka_setup, kafka_consumers, otherVars>>

KNext ==
    \/ \E c \in KafkaConfigurations : KafkaSetup(c)
    \/ \E channel \in KafkaChannels : KafkaRegister(channel)
    \/ \E i \in 1..MaxConsumers : KafkaConsumerCreated(i)
    \/ \E i \in 1..MaxConsumers : KafkaConsumerPanics(i)

SpecKafka == Init /\ [][KNext]_vars

(***************************************************************************)
(* setup run by the threads of SpecThreads, and by a handler inside        *)
(* handle(event): the two mutexes together, step by step.                  *)
(***************************************************************************)
LockPattern == message_channel(TOPIC, OrderAny)

LockCalls ==
    {[op |-> "register", id |-> "h1", channel_option |-> Some(LockPattern),
      event |-> NoEvent],
     [op |-> "unregister", id |-> "h1", channel_option |-> None, event |-> NoEvent],
     [op |-> "emit", id |-> NoHandler, channel_option |-> None, event |-> ThreadEvent]}

LockConfigurations ==
    {configuration(TOPIC, DotStar, TRUE), configuration(QUEUE, Star, FALSE)}

\* a setup that also takes the registry, under the configuration guard
SetupLocksBoth == {"BROKER_CONFIGURATION", "HANDLER_REGISTRY"}

\* the mutexes the statement of setup locks
SetupLocks == {"BROKER_CONFIGURATION"}

\* a thread calls setup(c)
TCallSetup(t, c) ==
    /\ threads[t].pc = "idle"
    /\ threads' = [threads EXCEPT ![t] =
          [IdleThread EXCEPT !.pc = "config_lock",
                             !.call = [op |-> "setup", id |-> NoHandler,
                                       channel_option |-> None, event |-> NoEvent,
                                       configuration |-> c]]]
    /\ UNCHANGED <<handler_configs, poisoned, seqVars, configVars, config_lock,
                   kafkaVars, lock, expected>>

\* setup: BROKER_CONFIGURATION.lock().unwrap()
TSetupLock(t) ==
    /\ threads[t].pc = "config_lock"
    /\ CanAcquire(config_lock)
    /\ IF UnwrapPanics(broker_poisoned)
       THEN /\ threads' = [threads EXCEPT ![t].pc = "unwound", ![t].fault = "poisoned"]
            /\ UNCHANGED config_lock
       ELSE /\ config_lock' = t
            /\ threads' = [threads EXCEPT
                  ![t].pc = IF "HANDLER_REGISTRY" \in SetupLocks THEN "lock" ELSE "update"]
    /\ UNCHANGED <<handler_configs, poisoned, seqVars, configVars, kafkaVars, lock,
                   expected>>

\* setup: MessageBrokerConfigurationInternal::from(configuration), then update, and
\* the guard is dropped when the statement ends or unwinds
TUpdate(t) ==
    /\ threads[t].pc = "update"
    /\ IF ~RegexNew(threads[t].call.configuration.message_channel.name).ok
       THEN /\ threads' = [threads EXCEPT ![t].pc = "unwound", ![t].fault = "regex"]
            /\ broker_poisoned' = GuardAliveInArguments
            /\ UNCHANGED broker_configuration
       ELSE /\ broker_configuration' =
                  Update(broker_configuration,
                         MessageBrokerConfigurationInternalFrom(threads[t].call.configuration))
            /\ threads' = [threads EXCEPT ![t] = IdleThread]
            /\ UNCHANGED broker_poisoned
    /\ config_lock' = IF config_lock = t THEN NoThread ELSE config_lock
    /\ UNCHANGED <<handler_configs, poisoned, seqVars, kafkaVars, lock, expected>>

\* config.handler.handle(event) calls setup
THandlerCallsSetup(t) ==
    /\ threads[t].pc = "handling"
    /\ threads' = [threads EXCEPT ![t].pc = "handler_config_lock"]
    /\ UNCHANGED <<handler_configs, poisoned, seqVars, configVars, config_lock,
                   kafkaVars, lock, expected>>

\* the handler's setup: BROKER_CONFIGURATION.lock().unwrap(); its panic unwinds the
\* handler and the emit that called it
THandlerSetupLock(t) ==
    /\ threads[t].pc = "handler_config_lock"
    /\ CanAcquire(config_lock)
    /\ IF UnwrapPanics(broker_poisoned)
       THEN /\ threads' = [threads EXCEPT ![t].pc = "unwound", ![t].fault = "handler"]
            /\ poisoned' = TRUE
            /\ lock' = IF lock = t THEN NoThread ELSE lock
            /\ UNCHANGED config_lock
       ELSE /\ config_lock' = t
            /\ threads' = [threads EXCEPT
                  ![t].pc = IF "HANDLER_REGISTRY" \in SetupLocks
                            THEN "reentering" ELSE "handler_update"]
            /\ UNCHANGED <<poisoned, lock>>
    /\ UNCHANGED <<handler_configs, seqVars, configVars, kafkaVars, expected>>

\* the handler's setup(c): from, update, and setup returns into the handler
THandlerUpdate(t, c) ==
    /\ threads[t].pc = "handler_update"
    /\ IF ~RegexNew(c.message_channel.name).ok
       THEN /\ threads' = [threads EXCEPT ![t].pc = "unwound", ![t].fault = "handler"]
            /\ broker_poisoned' = GuardAliveInArguments
            /\ poisoned' = TRUE
            /\ lock' = IF lock = t THEN NoThread ELSE lock
            /\ UNCHANGED broker_configuration
       ELSE /\ broker_configuration' =
                  Update(broker_configuration, MessageBrokerConfigurationInternalFrom(c))
            /\ threads' = [threads EXCEPT ![t].pc = "handling"]
            /\ UNCHANGED <<broker_poisoned, poisoned, lock>>
    /\ config_lock' = IF config_lock = t THEN NoThread ELSE config_lock
    /\ UNCHANGED <<handler_configs, seqVars, kafkaVars, expected>>

LNext ==
    \/ \E t \in Threads, c \in LockCalls : TCall(t, c)
    \/ \E t \in Threads, c \in LockConfigurations : TCallSetup(t, c)
    \/ \E t \in Threads : TLock(t)
    \/ \E t \in Threads : TSetupLock(t)
    \/ \E t \in Threads : TUpdate(t)
    \/ \E t \in Threads : TFrom(t)
    \/ \E t \in Threads : TPush(t)
    \/ \E t \in Threads : TPosition(t)
    \/ \E t \in Threads : TRemove(t)
    \/ \E t \in Threads : TScan(t)
    \/ \E t \in Threads : THandlerReturns(t)
    \/ \E t \in Threads : THandlerPanics(t)
    \/ \E t \in Threads : THandlerReenters(t)
    \/ \E t \in Threads : TRelockPanics(t)
    \/ \E t \in Threads : THandlerCallsSetup(t)
    \/ \E t \in Threads : THandlerSetupLock(t)
    \/ \E t \in Threads, c \in LockConfigurations : THandlerUpdate(t, c)

SpecLocks == Init /\ [][LNext]_vars

(***************************************************************************)
(* What the last call did, read off the state.                             *)
(***************************************************************************)
InvokedSet == {invoked[k] : k \in DOMAIN invoked}
TimesInvoked(i) == Cardinality({k \in DOMAIN invoked : invoked[k] = i})
InvokedInRegistrationOrder ==
    \A k, l \in DOMAIN invoked : k < l => invoked[k] < invoked[l]
EmittedChannel == last.channel_option.channel
EmittedTo(channel_type) ==
    /\ last.op = "emit_to_channel"
    /\ ~poisoned
    /\ EmittedChannel.channel_type = channel_type
Matching == {i \in DOMAIN handler_configs : Matches(handler_configs[i].channel, EmittedChannel)}
SameKind == {i \in DOMAIN handler_configs :
                handler_configs[i].channel.channel_type = EmittedChannel.channel_type}
Count(configs, id) == Cardinality({i \in DOMAIN configs : configs[i].handler.id = id})

(***************************************************************************)
(* C1: emit(e) with no channel invokes the handler of every registered     *)
(* subscription exactly once, in registration order, whatever the kind     *)
(* and the name pattern of the subscription.                               *)
(***************************************************************************)
C1_EmitInvokesEveryHandlerOnce ==
    (last.op = "emit" /\ ~poisoned) =>
        /\ last.result = "ok"
        /\ \A i \in DOMAIN handler_configs : TimesInvoked(i) = 1
        /\ InvokedSet = DOMAIN handler_configs
        /\ InvokedInRegistrationOrder

C1_Witness ==
    /\ last.op = "emit"
    /\ ~poisoned
    /\ Len(handler_configs) = 3
    /\ Len(invoked) = 3
    /\ \E i, j \in DOMAIN handler_configs :
          /\ handler_configs[i].channel.channel_type = TOPIC
          /\ handler_configs[j].channel.channel_type = QUEUE
          /\ handler_configs[i].channel.name_regex # handler_configs[j].channel.name_regex

(***************************************************************************)
(* C2: an emit to a TOPIC channel invokes every subscription that matches  *)
(* the channel exactly once, in registration order, and invokes no         *)
(* subscription that does not match.                                       *)
(***************************************************************************)
C2_TopicInvokesAllMatchingInOrder ==
    EmittedTo(TOPIC) =>
        /\ last.result = "ok"
        /\ \A i \in DOMAIN handler_configs :
              TimesInvoked(i) = IF i \in Matching THEN 1 ELSE 0
        /\ InvokedSet = Matching
        /\ InvokedInRegistrationOrder

C2_Witness ==
    /\ EmittedTo(TOPIC)
    /\ EmittedChannel.name = Orders
    /\ Len(handler_configs) = 3
    /\ invoked = <<1, 3>>

(***************************************************************************)
(* C3: an emit to a QUEUE channel invokes at most one handler, and the     *)
(* one it invokes is the earliest registered subscription that matches:    *)
(* no later matching subscription is invoked by the same call.             *)
(***************************************************************************)
C3_QueueInvokesAtMostTheFirstMatching ==
    EmittedTo(QUEUE) =>
        /\ Len(invoked) <= 1
        /\ \A k \in DOMAIN invoked :
              /\ invoked[k] \in Matching
              /\ \A j \in Matching : invoked[k] <= j

C3_Witness ==
    /\ EmittedTo(QUEUE)
    /\ EmittedChannel.name = Orders
    /\ Cardinality(Matching) >= 2
    /\ invoked = <<1>>

(***************************************************************************)
(* C4: an emit to a QUEUE channel invokes exactly one handler whenever a   *)
(* registered subscription matches; subscriptions registered earlier that  *)
(* do not match are skipped and do not end the scan.                       *)
(***************************************************************************)
C4_QueueSkipsNonMatching ==
    (EmittedTo(QUEUE) /\ Matching # {}) =>
        /\ last.result = "ok"
        /\ Len(invoked) = 1
        /\ invoked[1] \in Matching

C4_Witness ==
    /\ EmittedTo(QUEUE)
    /\ EmittedChannel.name = Accounts
    /\ Len(handler_configs) = 3
    /\ SameKind = DOMAIN handler_configs
    /\ Matching = {3}
    /\ invoked = <<3>>

(***************************************************************************)
(* C5: emit_to_channel never invokes a subscription whose kind differs     *)
(* from the kind of the emitted channel, whatever the two names are.       *)
(***************************************************************************)
C5_KindMismatchNeverInvoked ==
    last.op = "emit_to_channel" =>
        \A i \in InvokedSet :
            handler_configs[i].channel.channel_type = EmittedChannel.channel_type

C5_Witness ==
    /\ last.op = "emit_to_channel"
    /\ ~poisoned
    /\ EmittedChannel.name = Star
    /\ invoked # <<>>
    /\ \E i \in DOMAIN handler_configs :
          /\ handler_configs[i].channel.channel_type # EmittedChannel.channel_type
          /\ i \notin InvokedSet
    /\ \E e \in MessageChannels, i \in DOMAIN handler_configs :
          /\ e.channel_type # handler_configs[i].channel.channel_type
          /\ CapturesIsSome(handler_configs[i].channel.name_regex.regex, e.name)

(***************************************************************************)
(* C6: a handler can be registered with the pattern name "*", and the      *)
(* subscription then matches every emitted channel name of its kind.       *)
(* Stated of every register call made while the registry lock is usable.   *)
(***************************************************************************)
C6_RegisterMatchAllPattern ==
    [][(/\ last'.op = "register"
        /\ last'.channel_option.channel.name = Star
        /\ ~poisoned)
       => /\ last'.result = "ok"
          /\ ~poisoned'
          /\ Len(handler_configs') = Len(handler_configs) + 1
          /\ \A n \in ChannelNames :
                Matches(handler_configs'[Len(handler_configs')].channel,
                        message_channel(last'.channel_option.channel.channel_type, n))]_vars

(***************************************************************************)
(* C7: an emit to a channel named "*" matches every registered             *)
(* subscription of the channel's kind, whatever its name pattern: a TOPIC  *)
(* emit invokes all of them, a QUEUE emit the earliest registered one.     *)
(***************************************************************************)
C7_MatchAllChannelName ==
    (last.op = "emit_to_channel" /\ ~poisoned /\ EmittedChannel.name = Star) =>
        /\ last.result = "ok"
        /\ EmittedChannel.channel_type = TOPIC => InvokedSet = SameKind
        /\ EmittedChannel.channel_type = QUEUE =>
              /\ SameKind = {} => invoked = <<>>
              /\ SameKind # {} =>
                    /\ Len(invoked) = 1
                    /\ invoked[1] \in SameKind
                    /\ \A j \in SameKind : invoked[1] <= j

C7_Witness ==
    /\ EmittedTo(TOPIC)
    /\ EmittedChannel.name = Star
    /\ Len(invoked) = 2
    /\ Len(handler_configs) = 3
    /\ \A i \in InvokedSet :
          ~CapturesIsSome(handler_configs[i].channel.name_regex.regex, Star)
    /\ \E i, j \in InvokedSet :
          handler_configs[i].channel.name_regex # handler_configs[j].channel.name_regex

(***************************************************************************)
(* C8: name matching is an unanchored partial match of the subscription's  *)
(* pattern against the emitted channel name.  FoundIn lists, for the       *)
(* names of the model, the pairs where the pattern is found somewhere in   *)
(* the channel name: "Order.*" in "Orders", "Account" in "Accounts".       *)
(* ReachedByScan leaves out what a QUEUE emit does not look at any more    *)
(* once it has invoked a handler.                                          *)
(***************************************************************************)
FoundIn == {<<OrderAny, Orders>>, <<Account, Accounts>>}
PatternFound(internal, name) ==
    \E pn \in PatternNames :
        /\ RegexNew(pn).ok
        /\ internal.name_regex.regex = RegexNew(pn).regex
        /\ <<pn, name>> \in FoundIn
ReachedByScan(i) ==
    \/ EmittedChannel.channel_type = TOPIC
    \/ \A k \in DOMAIN invoked : i <= invoked[k]

\* C8 as stated: the handler is invoked iff the kinds are equal and the
\* pattern is found somewhere in the channel name
C8_Original ==
    (last.op = "emit_to_channel" /\ ~poisoned) =>
        \A i \in DOMAIN handler_configs :
            ReachedByScan(i) =>
                (i \in InvokedSet <=>
                    /\ handler_configs[i].channel.channel_type = EmittedChannel.channel_type
                    /\ PatternFound(handler_configs[i].channel, EmittedChannel.name))

\* C8 amended: the handler is invoked iff the kinds are equal and either the
\* pattern is found somewhere in the channel name or the channel name is "*"
C8_PartialMatchOrMatchAllName ==
    (last.op = "emit_to_channel" /\ ~poisoned) =>
        \A i \in DOMAIN handler_configs :
            ReachedByScan(i) =>
                (i \in InvokedSet <=>
                    /\ handler_configs[i].channel.channel_type = EmittedChannel.channel_type
                    /\ \/ PatternFound(handler_configs[i].channel, EmittedChannel.name)
                       \/ EmittedChannel.name = Star)

C8_Witness ==
    /\ EmittedTo(TOPIC)
    /\ EmittedChannel.name = Accounts
    /\ \E i \in InvokedSet :
          handler_configs[i].channel.name_regex.regex = RegexNew(Account).regex
    /\ \E i \in SameKind :
          /\ handler_configs[i].channel.name_regex.regex = RegexNew(OrderAny).regex
          /\ i \notin InvokedSet

(***************************************************************************)
(* C9: after unregister(H1.id) has completed no later emit invokes H1, and *)
(* a second unregister(H1.id) completes without error and changes nothing. *)
(***************************************************************************)
\* an emit invokes only what the registry holds: no handler of an id that no
\* subscription carries; and only register(id) brings an id into the registry
AbsentIdStaysUninvoked ==
    \A h \in HandlerIds :
        Count(handler_configs, h) = 0 =>
            /\ ~(last'.op = "register" /\ last'.id = h) => Count(handler_configs', h) = 0
            /\ last'.op \in {"emit", "emit_to_channel"} =>
                  \A k \in DOMAIN invoked' : handler_configs'[invoked'[k]].handler.id # h

\* C9 as stated, for every handler id
C9_Original ==
    [][/\ (last'.op = "unregister" /\ ~poisoned) =>
              /\ last'.result = "ok"
              /\ Count(handler_configs', last'.id) = 0
       /\ (last.op = "unregister" /\ last'.op = "unregister" /\ last'.id = last.id
               /\ ~poisoned) =>
              /\ last'.result = "ok"
              /\ handler_configs' = handler_configs
       /\ AbsentIdStaysUninvoked]_vars

\* C9 amended: stated of an id that at most one subscription carries
C9_UnregisteredUniqueIdNeverInvoked ==
    [][/\ (last'.op = "unregister" /\ ~poisoned) =>
              /\ last'.result = "ok"
              /\ Count(handler_configs, last'.id) <= 1 => Count(handler_configs', last'.id) = 0
              /\ Count(handler_configs, last'.id) = 0 => handler_configs' = handler_configs
       /\ AbsentIdStaysUninvoked]_vars

C9_Witness ==
    /\ last.op = "unregister"
    /\ last.result = "ok"
    /\ last.removed
    /\ Count(handler_configs, last.id) = 0
    /\ Len(handler_configs) = 2

(***************************************************************************)
(* C10: unregister(id) removes exactly the earliest registered             *)
(* subscription whose handler id is id, whatever its kind and pattern,     *)
(* and keeps every other subscription in place and in order; with no such  *)
(* subscription it leaves the registry as it was and raises no error.      *)
(***************************************************************************)
FirstWithId(configs, id) ==
    {i \in DOMAIN configs :
        /\ configs[i].handler.id = id
        /\ \A j \in 1..(i - 1) : configs[j].handler.id # id}

C10_UnregisterRemovesFirstWithId ==
    [][(last'.op = "unregister" /\ ~poisoned) =>
          /\ last'.result = "ok"
          /\ ~poisoned'
          /\ FirstWithId(handler_configs, last'.id) = {} =>
                handler_configs' = handler_configs
          /\ \A p \in FirstWithId(handler_configs, last'.id) :
                /\ Len(handler_configs') = Len(handler_configs) - 1
                /\ \A k \in 1..(p - 1) : handler_configs'[k] = handler_configs[k]
                /\ \A k \in p..(Len(handler_configs) - 1) :
                      handler_configs'[k] = handler_configs[k + 1]]_vars

C10_Witness ==
    /\ last.op = "unregister"
    /\ last.result = "ok"
    /\ last.removed
    /\ Len(handler_configs) = 2
    /\ handler_configs[1].handler.id # last.id
    /\ handler_configs[2].handler.id = last.id

(***************************************************************************)
(* C11: register with a valid pattern succeeds and appends exactly one     *)
(* subscription at the end of the registry, leaving the subscriptions      *)
(* already there unchanged and in place; it invokes no handler.  Stated    *)
(* of the register calls made while the registry lock is usable.           *)
(***************************************************************************)
InvalidPatternNames == {Star}

C11_RegisterAppendsOne ==
    [][(/\ last'.op = "register"
        /\ last'.channel_option.channel.name \notin InvalidPatternNames
        /\ ~poisoned)
       => /\ last'.result = "ok"
          /\ ~poisoned'
          /\ Len(handler_configs') = Len(handler_configs) + 1
          /\ \A k \in DOMAIN handler_configs : handler_configs'[k] = handler_configs[k]
          /\ handler_configs'[Len(handler_configs')].handler.id = last'.id
          /\ handler_configs'[Len(handler_configs')].channel.channel_type
                = last'.channel_option.channel.channel_type
          /\ invoked' = <<>>]_vars

C11_Witness ==
    /\ last.op = "register"
    /\ last.result = "ok"
    /\ Len(handler_configs) = 3
    /\ handler_configs[3].handler.id = last.id
    /\ handler_configs[1] # handler_configs[3]
    /\ invoked = <<>>

(***************************************************************************)
(* C12: a register call whose pattern name is not a valid pattern fails    *)
(* in the caller and registers nothing: the registry holds the same        *)
(* subscriptions, in the same order, as before the call.                   *)
(***************************************************************************)
C12_InvalidPatternRegistersNothing ==
    [][(/\ last'.op = "register"
        /\ last'.channel_option.channel.name \in InvalidPatternNames)
       => /\ last'.result = "panic"
          /\ handler_configs' = handler_configs
          /\ invoked' = <<>>]_vars

C12_Witness ==
    /\ last.op = "register"
    /\ last.channel_option.channel.name = Star
    /\ last.result = "panic"
    /\ Len(handler_configs) = 2

(***************************************************************************)
(* C13: patterns are compiled at registration only: no emit and no         *)
(* emit_to_channel fails on a pattern, whatever the emitted channel name   *)
(* is ("*" included), and what the matcher runs is the program compiled    *)
(* from the name given to register.                                        *)
(***************************************************************************)
C13_NoCompilationAtEmit ==
    /\ (last.op \in {"emit", "emit_to_channel"} /\ ~poisoned) => last.result = "ok"
    /\ \A i \in DOMAIN handler_configs :
          /\ handler_configs[i].channel.name_regex.some
          /\ \E pn \in PatternNames \ InvalidPatternNames :
                handler_configs[i].channel.name_regex.regex = RegexNew(pn).regex

C13_Witness ==
    /\ last.op = "emit_to_channel"
    /\ EmittedChannel.name \in InvalidPatternNames
    /\ last.result = "ok"
    /\ Len(invoked) = 2

(***************************************************************************)
(* C14: the registry lock is not held while a handler runs, so a handler   *)
(* that calls register, unregister, emit or emit_to_channel from inside    *)
(* handle(event) finds the lock free.  In the code the guard lives to the  *)
(* end of the emit statement: the thread running a handler, and the        *)
(* handler re-entering the registry, is the holder of the lock.            *)
(***************************************************************************)
C14_LockFreeWhileHandlerRuns ==
    \A t \in Threads : threads[t].pc \in {"handling", "reentering"} => lock # t

(***************************************************************************)
(* C15: handler invocations are isolated within one emit: when the handler *)
(* of a matching subscription panics, every later matching subscription    *)
(* still has its handler invoked, so the emit that a panic ended has       *)
(* called every handler the emit selects.                                  *)
(***************************************************************************)
C15_PanicDoesNotStopDelivery ==
    \A t \in Threads :
        (threads[t].pc = "unwound" /\ threads[t].fault = "handler")
        => threads[t].delivered
              = EmitImpl(threads[t].snapshot, threads[t].call.channel_option)

(***************************************************************************)
(* C16: an emit delivers exactly to the subscriptions that were in the     *)
(* registry when the emit took hold of it: a register or unregister that   *)
(* another thread issues while the emit is delivering neither adds a       *)
(* handler to nor removes one from those the emit invokes.  Stated of the  *)
(* emits that return: at the step that returns, the handlers called are    *)
(* those the emit selects from the registry as it was at its start.        *)
(***************************************************************************)
C16_EmitDeliversToItsStartRegistry ==
    [][\A t \in Threads :
          (threads[t].pc \in {"scan", "handling"} /\ threads'[t].pc = "idle")
          => threads[t].delivered
                = EmitImpl(threads[t].snapshot, threads[t].call.channel_option)]_vars

C16_Witness ==
    \E t \in Threads : \E u \in Threads \ {t} :
        /\ threads[t].pc = "scan"
        /\ threads[t].cursor > Len(threads[t].snapshot)
        /\ Len(threads[t].delivered) = 2
        /\ threads[u].pc = "lock"
        /\ threads[u].call.op = "unregister"
        /\ Position(handler_configs, threads[u].call.id) \in
              {threads[t].delivered[k] : k \in DOMAIN threads[t].delivered}

(***************************************************************************)
(* C17: under any interleaving of threads calling register, unregister and *)
(* emit no registration is lost: once every call has returned (or has      *)
(* ended in a panic) the registry holds the subscriptions that were        *)
(* pushed and not removed by an unregister, each once, in the order of     *)
(* their pushes.                                                           *)
(***************************************************************************)
Quiescent == \A t \in Threads : threads[t].pc \in {"idle", "unwound"}

C17_NoRegistrationLost == Quiescent => handler_configs = expected

C17_Witness ==
    /\ Quiescent
    /\ Len(handler_configs) = 2
    /\ handler_configs[1] # handler_configs[2]
    /\ \E t \in Threads : threads[t].pc = "unwound" /\ threads[t].fault = "handler"

(***************************************************************************)
(* C18: under any interleaving of unregister calls, each call removes at   *)
(* most one subscription and only one with its own id: the step that ends  *)
(* an unregister(id) leaves one subscription with that id fewer (none      *)
(* fewer when there was none) and as many with every other id.             *)
(***************************************************************************)
C18_UnregisterRemovesAtMostOneOfItsId ==
    [][\A t \in Threads :
          (threads[t].pc = "remove" /\ threads'[t].pc # "remove")
          => /\ Count(handler_configs', threads[t].call.id)
                   = IF Count(handler_configs, threads[t].call.id) > 0
                     THEN Count(handler_configs, threads[t].call.id) - 1 ELSE 0
             /\ \A id \in HandlerIds \ {threads[t].call.id} :
                   Count(handler_configs', id) = Count(handler_configs, id)
             /\ Len(handler_configs') >= Len(handler_configs) - 1]_vars

C18_Witness ==
    \E t \in Threads : \E u \in Threads \ {t} :
        /\ threads[t].pc = "remove"
        /\ threads[t].cursor > 0
        /\ threads[u].pc = "lock"
        /\ threads[u].call.op = "unregister"
        /\ threads[u].call.id = threads[t].call.id
        /\ Count(handler_configs, threads[t].call.id) = 1
        /\ Len(handler_configs) = 2

(***************************************************************************)
(* C19: subscription order is stable: every operation leaves the registry  *)
(* as it was, or appends one subscription at its end, or removes one       *)
(* subscription and keeps the others in their order, so of two             *)
(* subscriptions still registered the earlier registered one comes first.  *)
(***************************************************************************)
WithoutAt(s, i) == [k \in 1..(Len(s) - 1) |-> IF k < i THEN s[k] ELSE s[k + 1]]

C19_OrderStable ==
    [][\/ handler_configs' = handler_configs
       \/ /\ Len(handler_configs') = Len(handler_configs) + 1
          /\ \A k \in DOMAIN handler_configs : handler_configs'[k] = handler_configs[k]
       \/ \E i \in DOMAIN handler_configs :
             handler_configs' = WithoutAt(handler_configs, i)]_vars

C19_Witness ==
    /\ last.op = "unregister"
    /\ last.removed
    /\ Len(handler_configs) = 2
    /\ handler_configs[1] # handler_configs[2]
    /\ handler_configs[1].handler.id # last.id
    /\ handler_configs[2].handler.id # last.id

(***************************************************************************)
(* C20: registry operations are mutually exclusive: at most one thread is  *)
(* between taking the registry lock and the end of its statement, and      *)
(* that thread is the holder of the lock.                                  *)
(***************************************************************************)
C20_MutualExclusion ==
    /\ Cardinality({t \in Threads : threads[t].pc \in Critical}) <= 1
    /\ \A t \in Threads : threads[t].pc \in Critical => lock = t
    /\ lock # NoThread => threads[lock].pc \in Critical

C20_Witness ==
    \E t \in Threads : \E u \in Threads \ {t} :
        /\ threads[t].pc = "push"
        /\ lock = t
        /\ threads[u].pc = "lock"
        /\ threads[u].call.op \in {"register", "unregister"}
        /\ Len(handler_configs) = 1

(***************************************************************************)
(* C21: once a panic has happened while the registry lock was held (a      *)
(* handler panicking during emit, a pattern failing to compile in          *)
(* register), the poisoning is never swallowed: every later register,      *)
(* unregister, emit and emit_to_channel panics at lock().unwrap(), without *)
(* entering the registry, and the registry stays as the panic left it.     *)
(***************************************************************************)
C21_PoisonedLockIsFatal ==
    [][poisoned
       => /\ poisoned'
          /\ handler_configs' = handler_configs
          /\ \A t \in Threads :
                /\ threads'[t].pc \in Critical => threads[t].pc \in Critical
                /\ (threads[t].pc = "lock" /\ threads'[t].pc # "lock")
                   => (threads'[t].pc = "unwound" /\ threads'[t].fault = "poisoned")]_vars

C21_Witness ==
    \E t \in Threads : \E u \in Threads \ {t} :
        /\ threads[t].pc = "unwound" /\ threads[t].fault = "handler"
        /\ threads[u].pc = "unwound" /\ threads[u].fault = "poisoned"
        /\ threads[u].call.op = "emit_to_channel"
        /\ Len(handler_configs) = 2

(***************************************************************************)
(* C22: the dispatcher is stateless: emit and emit_to_channel leave the    *)
(* registry (contents and order) and the broker configuration as they      *)
(* were, so a handler registered once is invoked again by the next emit    *)
(* to the same channel; a QUEUE delivery does not consume the              *)
(* subscription.                                                           *)
(***************************************************************************)
IsEmit(call) == call.op \in {"emit", "emit_to_channel"}

C22_EmitLeavesRegistryAndConfiguration ==
    [][IsEmit(last')
       => /\ handler_configs' = handler_configs
          /\ broker_configuration' = broker_configuration
          /\ broker_poisoned' = broker_poisoned
          /\ (/\ IsEmit(last)
              /\ last.result = "ok"
              /\ last'.result = "ok"
              /\ last'.channel_option = last.channel_option)
             => invoked' = invoked]_vars

C22_Witness ==
    /\ EmittedTo(QUEUE)
    /\ invoked = <<2>>
    /\ Len(handler_configs) = 3
    /\ broker_configuration.is_async
    /\ broker_configuration.message_channel.channel_type = QUEUE

(***************************************************************************)
(* C23: setup(configuration) replaces the stored broker configuration by   *)
(* the default channel (its kind, its name compiled) and the mode passed   *)
(* to it, so the last setup to complete is the one stored; it changes      *)
(* nothing else: the registry keeps its subscriptions and their order.     *)
(* A setup that fails stores nothing.                                      *)
(***************************************************************************)
CompiledName == {<<DotStar, <<[atom |-> ".", star |-> TRUE]>> >>,
                 <<OrderAny, <<[atom |-> "O", star |-> FALSE], [atom |-> "r", star |-> FALSE],
                              [atom |-> "d", star |-> FALSE], [atom |-> "e", star |-> FALSE],
                              [atom |-> "r", star |-> FALSE], [atom |-> ".", star |-> TRUE]>> >>}

C23_SetupReplacesConfigurationOnly ==
    [][last'.op = "setup"
       => /\ handler_configs' = handler_configs
          /\ poisoned' = poisoned
          /\ last'.result = "ok"
             => /\ broker_configuration'.is_async = last'.is_async
                /\ broker_configuration'.message_channel.channel_type
                      = last'.channel_option.channel.channel_type
                /\ broker_configuration'.message_channel.name_regex.some
                /\ <<last'.channel_option.channel.name,
                     broker_configuration'.message_channel.name_regex.regex>> \in CompiledName
          /\ last'.result # "ok" => broker_configuration' = broker_configuration]_vars

C23_Witness ==
    /\ last.op = "setup"
    /\ last.result = "ok"
    /\ last.is_async
    /\ last.channel_option.channel.channel_type = QUEUE
    /\ broker_configuration.is_async
    /\ broker_configuration.message_channel.channel_type = QUEUE
    /\ Len(handler_configs) = 2

(***************************************************************************)
(* C24: a handler that receives an event it cannot narrow to the type it   *)
(* understands takes this as a normal outcome: it does not handle, it      *)
(* does not fail, and the emit goes on to the remaining subscriptions.     *)
(* So an emit fails only at a poisoned lock, before any handler, and an    *)
(* emit that returns has gone through every subscription it selects,       *)
(* those after a handler that did not narrow the event included.           *)
(***************************************************************************)
Understood == {"OrderCreated"}

C24_TypeMismatchIsSkipped ==
    IsEmit(last) =>
        /\ last.result = "panic" => invoked = <<>>
        /\ \A k \in DOMAIN invoked :
              last.event \notin Understood
              => Handle(handler_configs[invoked[k]].handler, last.event) = "not handling"
        /\ (last.op = "emit" /\ last.result = "ok") => InvokedSet = DOMAIN handler_configs
        /\ (EmittedTo(TOPIC) /\ last.result = "ok") => InvokedSet = Matching

C24_Witness ==
    /\ last.op = "emit"
    /\ last.event = "OrderCanceled"
    /\ last.result = "ok"
    /\ invoked = <<1, 2, 3>>

(***************************************************************************)
(* C25: across threads unregister is linearized with emit.  An emit calls  *)
(* handlers only of subscriptions that are in the registry while it calls  *)
(* them, each position once, and an unregister removes its subscription    *)
(* only while no emit is delivering: the removal falls before the emit     *)
(* took hold of the registry or after the emit has returned.  So once      *)
(* unregister(H.id) has returned no emit starting afterwards invokes H,    *)
(* and an emit overlapping the unregister invokes H at most once.          *)
(***************************************************************************)
Delivering(t) == threads[t].pc \in {"scan", "handling", "reentering"}

C25_UnregisterLinearizedWithEmit ==
    \A t \in Threads :
        Delivering(t)
        => /\ handler_configs = threads[t].snapshot
           /\ \A k \in DOMAIN threads[t].delivered :
                 /\ threads[t].delivered[k] \in DOMAIN handler_configs
                 /\ \A j \in DOMAIN threads[t].delivered :
                       j < k => threads[t].delivered[j] < threads[t].delivered[k]
           /\ \A u \in Threads \ {t} : threads[u].pc \notin {"position", "remove"}

C25_Witness ==
    \E t \in Threads : \E u \in Threads \ {t} :
        /\ threads[t].pc = "handling"
        /\ threads[t].delivered = <<1, 2>>
        /\ threads[u].pc = "lock"
        /\ threads[u].call.op = "unregister"
        /\ Count(handler_configs, threads[u].call.id) = 1
        /\ handler_configs[2].handler.id = threads[u].call.id

(***************************************************************************)
(* C29: concurrent emits are serialized: the handler invocations of two    *)
(* emit calls made from different threads never interleave; while one      *)
(* emit is between its first and its last invocation no other thread is    *)
(* inside an emit.                                                         *)
(***************************************************************************)
C29_EmitsDoNotInterleave ==
    \A t \in Threads : \A u \in Threads \ {t} : ~(Delivering(t) /\ Delivering(u))

C29_Witness ==
    \E t \in Threads : \E u \in Threads \ {t} :
        /\ threads[t].pc = "handling"
        /\ threads[t].delivered = <<1>>
        /\ Len(handler_configs) = 2
        /\ threads[t].call.op = "emit"
        /\ threads[u].pc = "lock"
        /\ threads[u].call.op = "emit"

(***************************************************************************)
(* C26: which handlers an emit invokes, and in what order, depends on the  *)
(* registry and the target channel only: two emits with different events   *)
(* against the same registry and the same channel invoke the same          *)
(* sequence of handlers.                                                   *)
(***************************************************************************)
C26_DeliveryIndependentOfEvent ==
    [][(/\ IsEmit(last)
        /\ IsEmit(last')
        /\ last'.op = last.op
        /\ last'.channel_option = last.channel_option
        /\ last'.event # last.event)
       => /\ invoked' = invoked
          /\ last'.result = last.result]_vars

C26_Witness ==
    /\ EmittedTo(TOPIC)
    /\ last.event = "OrderCanceled"
    /\ last.result = "ok"
    /\ invoked = <<1, 3>>

(***************************************************************************)
(* C27: the registry does not require handler ids to be unique:            *)
(* registering a handler whose id is already registered adds a second      *)
(* subscription, an emit with no channel invokes both, and one             *)
(* unregister(id) removes the earlier one only, the later one staying      *)
(* registered (and invoked by the emits that follow, by the first part).   *)
(***************************************************************************)
C27_DuplicateIdsAreIndependent ==
    [][/\ (last'.op = "register" /\ last'.result = "ok")
          => Count(handler_configs', last'.id) = Count(handler_configs, last'.id) + 1
       /\ (last'.op = "emit" /\ last'.result = "ok")
          => invoked' = [i \in 1..Len(handler_configs) |-> i]
       /\ (last'.op = "unregister" /\ last'.removed)
          => /\ Count(handler_configs', last'.id) = Count(handler_configs, last'.id) - 1
             /\ \E i \in DOMAIN handler_configs :
                   /\ handler_configs[i].handler.id = last'.id
                   /\ \A j \in 1..(i - 1) : handler_configs[j].handler.id # last'.id
                   /\ handler_configs' = WithoutAt(handler_configs, i)]_vars

C27_Witness ==
    /\ last.op = "unregister"
    /\ last.removed
    /\ Len(handler_configs) = 2
    /\ handler_configs[2].handler.id = last.id
    /\ handler_configs[1].handler.id # last.id

(***************************************************************************)
(* C28: a register call with an invalid pattern fails with the registry    *)
(* lock held, which poisons the lock: from then on every register,         *)
(* unregister, emit and emit_to_channel call fails, although the           *)
(* subscription list was not modified and is not modified afterwards.      *)
(***************************************************************************)
C28_FailedRegisterPoisonsTheLock ==
    [][/\ (last'.op = "register"
           /\ last'.channel_option.channel.name \in InvalidPatternNames)
          => (poisoned' /\ handler_configs' = handler_configs)
       /\ poisoned
          => /\ poisoned'
             /\ last'.result = "panic"
             /\ invoked' = <<>>
             /\ handler_configs' = handler_configs]_vars

C28_Witness ==
    /\ poisoned
    /\ last.op = "emit_to_channel"
    /\ last.result = "panic"
    /\ Len(handler_configs) = 2
    /\ Matching = {1, 2}

(***************************************************************************)
(* C30: delivery is synchronous whatever mode is configured: with          *)
(* is_async true as with false, when emit or emit_to_channel returns       *)
(* every selected handler has been called and has returned: all            *)
(* subscriptions in order for an emit without channel, all matching ones   *)
(* in order on a TOPIC, the first matching one on a QUEUE.                 *)
(***************************************************************************)
C30_SynchronousInEveryMode ==
    \A mode \in BOOLEAN :
        (broker_configuration.is_async = mode /\ IsEmit(last) /\ last.result = "ok")
        => /\ InvokedInRegistrationOrder
           /\ last.op = "emit" => InvokedSet = DOMAIN handler_configs
           /\ EmittedTo(TOPIC) => InvokedSet = Matching
           /\ EmittedTo(QUEUE) =>
                 /\ Matching # {} => Len(invoked) = 1
                 /\ \A k \in DOMAIN invoked :
                       invoked[k] \in Matching /\ \A j \in Matching : invoked[k] <= j

C30_Witness ==
    /\ broker_configuration.is_async
    /\ EmittedTo(TOPIC)
    /\ last.result = "ok"
    /\ invoked = <<1, 2>>
    /\ Len(handler_configs) = 3

(***************************************************************************)
(* C31: the broker configuration never influences delivery: whatever       *)
(* default channel and mode are stored (none yet, or those of any setup),  *)
(* an emit without channel invokes every subscription in order and an      *)
(* emit to a channel invokes subscriptions matching that channel only      *)
(* (all of them on a TOPIC); the configured default channel is never a     *)
(* filter, so what is invoked is determined by the registry and the        *)
(* emitted channel alone.                                                  *)
(***************************************************************************)
MatchesDefaultChannel(i) ==
    handler_configs[i].channel.channel_type
       = broker_configuration.message_channel.channel_type

C31_ConfigurationNeverFilters ==
    (IsEmit(last) /\ last.result = "ok") =>
        /\ last.op = "emit" => invoked = [i \in 1..Len(handler_configs) |-> i]
        /\ last.op = "emit_to_channel" =>
              /\ InvokedSet \subseteq Matching
              /\ EmittedChannel.channel_type = TOPIC => Matching \subseteq InvokedSet
              /\ EmittedChannel.channel_type = QUEUE =>
                    \A i \in Matching : \E k \in DOMAIN invoked : invoked[k] <= i

C31_Witness ==
    /\ last.op = "emit"
    /\ last.result = "ok"
    /\ invoked = <<1, 2, 3>>
    /\ broker_configuration.message_channel.channel_type = QUEUE
    /\ ~MatchesDefaultChannel(1)
    /\ MatchesDefaultChannel(2)

(***************************************************************************)
(* C34: QUEUE delivery is not shared out among competing consumers: an     *)
(* emit to a QUEUE channel is delivered to the earliest registered         *)
(* matching subscription, so while the registry is unchanged every emit    *)
(* to the same QUEUE channel goes to the same handler, and a matching      *)
(* subscription registered later is invoked only when no subscription      *)
(* before it in the registry matches (every earlier matching one has       *)
(* been unregistered).                                                     *)
(***************************************************************************)
C34_QueueAlwaysServesTheEarliestMatching ==
    [][(/\ last'.op = "emit_to_channel"
        /\ last'.result = "ok"
        /\ last'.channel_option.channel.channel_type = QUEUE)
       => /\ \A k \in DOMAIN invoked' :
                /\ Matches(handler_configs[invoked'[k]].channel, last'.channel_option.channel)
                /\ \A j \in 1..(invoked'[k] - 1) :
                      ~Matches(handler_configs[j].channel, last'.channel_option.channel)
          /\ (/\ last.op = "emit_to_channel"
              /\ last.result = "ok"
              /\ last.channel_option = last'.channel_option)
             => invoked' = invoked]_vars

C34_Witness ==
    /\ EmittedTo(QUEUE)
    /\ last.result = "ok"
    /\ invoked = <<2>>
    /\ Matching = {2, 3}
    /\ handler_configs[2].handler.id # handler_configs[3].handler.id

(***************************************************************************)
(* C33: every emit terminates when the handlers it invokes return and do   *)
(* not re-enter the registry.  The call is one pass over the               *)
(* subscriptions: while it runs it holds the registry, which stays as it   *)
(* was when the call started; the positions it has invoked are strictly    *)
(* increasing, so each subscription's handler is invoked at most once and  *)
(* there are at most as many invocations as subscriptions at the start;    *)
(* and each of its steps either ends the call (or leaves the premise: the  *)
(* handler panics or re-enters) or strictly advances the pass, whose       *)
(* progress is bounded by the number of subscriptions.  Under the          *)
(* fairness of SpecThreadsFair the pass is therefore always left.          *)
(***************************************************************************)
InPass(t) == threads[t].pc \in {"scan", "handling"}

Progress(thread) == 2 * thread.cursor + (IF thread.pc = "handling" THEN 1 ELSE 0)

SinglePass(t) ==
    /\ lock = t
    /\ threads[t].snapshot = handler_configs
    /\ threads[t].cursor \in 1..(Len(threads[t].snapshot) + 1)
    /\ Progress(threads[t]) <= 2 * (Len(threads[t].snapshot) + 1)
    /\ \A k \in DOMAIN threads[t].delivered :
          /\ threads[t].delivered[k] \in DOMAIN threads[t].snapshot
          /\ threads[t].delivered[k] <= threads[t].cursor
          /\ \A j \in 1..(k - 1) : threads[t].delivered[j] < threads[t].delivered[k]
    /\ Len(threads[t].delivered) <= Len(threads[t].snapshot)
    /\ threads[t].pc = "handling" =>
          /\ threads[t].delivered # <<>>
          /\ threads[t].delivered[Len(threads[t].delivered)] = threads[t].cursor
    /\ threads[t].pc = "scan" =>
          \A k \in DOMAIN threads[t].delivered :
              threads[t].delivered[k] < threads[t].cursor

C33_EmitIsOneBoundedPass ==
    /\ \A t \in Threads : InPass(t) ~> ~InPass(t)
    /\ [][\A t \in Threads :
             /\ InPass(t) => SinglePass(t)
             /\ (InPass(t) /\ threads'[t] # threads[t]) =>
                   \/ threads'[t].pc \in {"idle", "unwound", "reentering"}
                   \/ /\ threads'[t].pc \in {"scan", "handling"}
                      /\ Progress(threads'[t]) > Progress(threads[t])
                      /\ threads'[t].snapshot = threads[t].snapshot]_vars

C33_Witness ==
    \E t \in Threads : \E u \in Threads \ {t} :
        /\ threads[t].pc = "scan"
        /\ threads[t].call.op = "emit"
        /\ Len(threads[t].snapshot) = 3
        /\ threads[t].cursor = 4
        /\ threads[t].delivered = <<1, 2, 3>>
        /\ threads[u].pc = "lock"

(***************************************************************************)
(* C35: kafka::setup stores every field of the configuration it is given:  *)
(* after setup(c) returned, the stored topic, partition, group id,         *)
(* bootstrap servers, topic-auto-create flag, auto-commit flag and timeout *)
(* are those of c, and a consumer built by register after it has c's       *)
(* auto-commit setting.                                                    *)
(***************************************************************************)
C35_SetupStoresEveryField ==
    /\ kafka_setup.some =>
          kafka_configuration
             = KafkaMessageBrokerConfigurationInternalFrom(kafka_setup.configuration)
    /\ \A k \in DOMAIN kafka_consumers :
          kafka_consumers[k].after.some =>
              kafka_consumers[k].enable_auto_commit
                 = kafka_consumers[k].after.configuration.auto_commit_enabled

(***************************************************************************)
(* C32: the registry lock and the configuration lock are never held        *)
(* together by one operation.  The thread holding the configuration lock   *)
(* is inside the update of a setup and waits for nothing; a thread holds   *)
(* both locks only while a handler called by its emit runs setup, which    *)
(* takes the configuration lock alone.  So no two threads ever wait for    *)
(* each other's lock, whatever the interleaving of setup with register,    *)
(* unregister and emit, and a handler waiting for the configuration lock   *)
(* waits for a thread that waits for no lock.                              *)
(***************************************************************************)
WaitsFor(t, u) ==
    \/ threads[t].pc \in {"lock", "reentering"} /\ lock = u
    \/ threads[t].pc \in {"config_lock", "handler_config_lock"} /\ config_lock = u

C32_LocksNeverNestInOneOperation ==
    /\ \A t \in Threads :
          /\ config_lock = t => threads[t].pc \in {"update", "handler_update"}
          /\ (lock = t /\ config_lock = t) => threads[t].pc = "handler_update"
          /\ threads[t].pc = "update" => lock # t
    /\ \A t \in Threads : \A u \in Threads \ {t} :
          ~(WaitsFor(t, u) /\ WaitsFor(u, t))
    /\ \A t \in Threads : \A u \in Threads :
          (threads[t].pc = "handler_config_lock" /\ WaitsFor(t, u))
          => \A w \in Threads : ~WaitsFor(u, w)

C32_Witness ==
    \E t \in Threads : \E u \in Threads \ {t} :
        /\ threads[t].pc = "handler_config_lock"
        /\ lock = t
        /\ threads[u].pc = "update"
        /\ config_lock = u
        /\ WaitsFor(t, u)

====
